---- MODULE Spec2Model ----
(***************************************************************************)
(* Model of src/scripts/tm_shape_queue.py: the traffic-manager shaping     *)
(* controller (apply / reset / reset-all) and the watch-mode sampling      *)
(* loop.  One behaviour of the model is one run of main().  The hardware   *)
(* (the bfrt tables) is the environment: every call on it either raises    *)
(* or returns, and what it returns is chosen by the environment.           *)
(***************************************************************************)
EXTENDS Integers, Sequences, FiniteSets, TLC

(***************************************************************************)
(* Program constants.                                                      *)
(***************************************************************************)
NumPorts == 256
PipeSize == 128
NumQueues == 8
TmUnitBps == 1000

(***************************************************************************)
(* Bounds of the model.                                                    *)
(***************************************************************************)
MaxPgId == 0
MaxCount == 2
MaxIter == 3
MaxMapLen == 3
MaxKey == 9
MaxRateK == 3

(***************************************************************************)
(* Python's None and optional values: None is the empty tuple, a value v   *)
(* that is present is <<v>>.                                               *)
(***************************************************************************)
None == << >>
Some(v) == << v >>
IsNone(x) == x = << >>
Val(x) == x[1]

Max2(a, b) == IF a >= b THEN a ELSE b

RECURSIVE SumSeq(_)
SumSeq(s) == IF s = << >> THEN 0 ELSE Head(s) + SumSeq(Tail(s))

(***************************************************************************)
(* _rate_to_tm_units_bps: max(0, int(rate_bps // 1_000)).  Python's // is  *)
(* floor division, and so is \div.                                         *)
(***************************************************************************)
RateToTmUnitsRoundUp(rate_bps) == Max2(0, (rate_bps + TmUnitBps - 1) \div TmUnitBps)
RateToTmUnits(rate_bps) == Max2(0, rate_bps \div TmUnitBps)

(***************************************************************************)
(* _map_queue_key.  egress_qids is a list of integers (0-based in Python,  *)
(* 1-based here), so int(egress_qids[local_queue]) is the element itself   *)
(* and the except branch is never taken.                                   *)
(***************************************************************************)
MapQueueKeyOffByOne(local_queue, egress_qids) ==
    IF egress_qids = << >> THEN local_queue
    ELSE IF 0 < local_queue /\ local_queue < Len(egress_qids)
         THEN egress_qids[local_queue]
         ELSE local_queue
MapQueueKey(local_queue, egress_qids) ==
    IF egress_qids = << >> THEN local_queue
    ELSE IF 0 <= local_queue /\ local_queue < Len(egress_qids)
         THEN egress_qids[local_queue + 1]
         ELSE local_queue

(***************************************************************************)
(* The delta of a cumulative counter: max(0, current - previous).          *)
(***************************************************************************)
DeltaSigned(cur, prev) == cur - prev
Delta(cur, prev) == Max2(0, cur - prev)

(***************************************************************************)
(* The hardware calls the program issues, as it issues them.               *)
(***************************************************************************)
(* ok: the call returned; ~ok: it raised.  fields: the data fields the call
   passes; field and val: the one among them whose value the program chooses. *)
SetPipeOp(p, ok) ==
    [op |-> "set_pipe", table |-> "root", key |-> << p >>, fields |-> {},
     field |-> "", val |-> 0, ok |-> ok]
GetOp(table, key, ok) ==
    [op |-> "get", table |-> table, key |-> key, fields |-> {},
     field |-> "", val |-> 0, ok |-> ok]
ModEnableOpWithPriority(table, key, enable, ok) ==
    [op |-> "mod", table |-> table, key |-> key,
     fields |-> {"max_rate_enable", "max_priority"},
     field |-> "max_rate_enable", val |-> IF enable THEN 1 ELSE 0, ok |-> ok]
ModEnableOp(table, key, enable, ok) ==
    [op |-> "mod", table |-> table, key |-> key, fields |-> {"max_rate_enable"},
     field |-> "max_rate_enable", val |-> IF enable THEN 1 ELSE 0, ok |-> ok]
ModRateOp(table, key, units, ok) ==
    [op |-> "mod", table |-> table, key |-> key,
     fields |-> {"unit", "provisioning", "max_rate"},
     field |-> "max_rate", val |-> units, ok |-> ok]
ClearOp ==
    [op |-> "clear", table |-> "tm.counter", key |-> << >>, fields |-> {},
     field |-> "", val |-> 0, ok |-> TRUE]

IsWrite(o) == o.op = "mod"

(***************************************************************************)
(* Output lines other than the watch records.                              *)
(***************************************************************************)
Line(kind, a, b) == [line |-> kind, a |-> a, b |-> b]

(***************************************************************************)
(* The command line after argparse; the defaults are those of the parser.  *)
(* log_file says whether --log-file was given.                             *)
(***************************************************************************)
DefaultArgs ==
    [mode |-> "watch", scope |-> "port", dev_port |-> None, queue |-> 0,
     all_queues |-> FALSE, clear_counters |-> FALSE,
     max_gbps |-> None, max_mbps |-> None, max_bps |-> None,
     interval |-> 1, duration |-> None, iterations |-> None,
     log_file |-> FALSE]

Scopes == {"port", "queue"}
DevPorts == {5, 10, 200}
QueueArgs == {0, 1, 7}

(* Rates around the unit boundaries, and two large rates within 32-bit integers. *)
RateInputs ==
    {k * TmUnitBps + o : k \in (0 - MaxRateK)..MaxRateK, o \in {0, 1, 999}}
        \cup {10000000, 2000000000}

(* What tm.port.cfg can hold for a port: pg_id (absent: -1) and the queue map. *)
PgIds == (0 - 1)..MaxPgId
QKeys == 0..MaxKey
QidMaps ==
    { << >>, << MaxKey, MaxKey - 1 >>,
      [k \in 1..NumQueues |-> (k + 1) % NumQueues] }

(***************************************************************************)
(* The hardware a run meets.  "any": every call may raise and returns what *)
(* the environment chooses.  "C" and "D": the scripted universes of the    *)
(* end-to-end scenarios C (watch) and D (reset-all).  "F": a sweep where   *)
(* every fourth port may fail.  busy: the logical queues whose drop        *)
(* counter moves; the others read 0.                                       *)
(***************************************************************************)
Universe(name, busy) == [name |-> name, busy |-> busy]
BusySets == { {}, {0}, {NumQueues - 1}, {2, 5} }
ScenarioC == << 100, 130, 125 >>

VARIABLES
    args,           \* the parsed command line
    universe,       \* the hardware the run meets: "any", or a scripted scenario
    pc,             \* where main() is
    err,            \* how the run ended when it ended by an exception
    out,            \* the lines written, without the watch records
    closeCount,     \* calls of _writer.close()
    pipe,           \* the pipe the hardware context is switched to
    pg_id, egress_qids,
    dp, reset_count, skipped_count,
    ops,            \* the hardware calls of the run outside its loops
    iterOps,        \* the hardware calls of the latest loop iteration
    hw,             \* the shaping tables of the target port and port group
    max_rate_units, cur_snap, new_snap,
    i, elapsed, prev_eg_drop, prev_q_drops,
    rec, nrec,      \* the latest watch record, and how many were written
    call,           \* the latest call of a pure helper
    run,            \* 1, or 2 when the same command is run a second time
    hw_first,       \* the shaping tables as the first run left them
    hw_map          \* the port-group mapping tm.port.cfg holds for --dev-port

vars ==
    << args, universe, pc, err, out, closeCount, pipe, pg_id, egress_qids,
       dp, reset_count, skipped_count, ops, iterOps, hw,
       max_rate_units, cur_snap, new_snap,
       i, elapsed, prev_eg_drop, prev_q_drops, rec, nrec, call, run, hw_first,
       hw_map >>

sweepVars == << dp, reset_count, skipped_count >>
applyVars == << max_rate_units, cur_snap, new_snap >>
watchVars == << i, elapsed, prev_eg_drop, prev_q_drops, rec, nrec >>

NoSnap == [cfg |-> FALSE, rate |-> 0 - 1]
NoRec ==
    [kind |-> "none", eg_drop |-> 0, d_eg_drop |-> 0, q_drops |-> << >>, d_q_drops |-> << >>,
     sum_d_q |-> 0, d_unattributed |-> 0]
NoCall == [fn |-> "none", arg |-> 0, list |-> << >>, result |-> 0]

(* The shaping tables before the run: shaping off, the platform's default rate.
   q_enabled: the queue keys with shaping on; q_rates: << key, rate >> of the
   queues whose rate was written. *)
DefaultMaxRate == 10003999
HwInit ==
    [port_enable |-> FALSE, port_rate |-> DefaultMaxRate,
     q_enabled |-> {}, q_rates |-> {}]

(* What tm.port.cfg holds for a port: its pg_id (below 0: no port group) and
   its egress_qid_queues.  A run without --dev-port reads the mapping of no
   single port. *)
HwMaps == [pg : PgIds, qids : QidMaps]
NoMap == [pg |-> 0 - 1, qids |-> << >>]

(* main() is entered with the writer constructed and nothing else done. *)
InitWith(ArgSet, Universes, HwSet) ==
    /\ args \in ArgSet
    /\ hw_map \in (IF IsNone(args.dev_port) THEN {NoMap} ELSE HwMaps)
    /\ universe \in Universes
    /\ universe.name = "C" =>
          (~args.all_queues /\ args.iterations = Some(3) /\ IsNone(args.duration))
    /\ Cardinality(universe.busy) > 1 => args.iterations = Some(2)
    /\ args.all_queues \/ universe.busy \subseteq {args.queue}
    /\ pc = "main"
    /\ err = "none"
    /\ out = << >>
    /\ closeCount = 0
    /\ pipe = 0
    /\ pg_id = 0 - 1
    /\ egress_qids = << >>
    /\ dp = 0
    /\ reset_count = 0
    /\ skipped_count = 0
    /\ ops = << >>
    /\ iterOps = << >>
    /\ hw \in HwSet
    /\ max_rate_units = 0
    /\ cur_snap = NoSnap
    /\ new_snap = NoSnap
    /\ i = 0
    /\ elapsed = 0
    /\ prev_eg_drop = None
    /\ prev_q_drops = None
    /\ rec = NoRec
    /\ nrec = 0
    /\ call = NoCall
    /\ run = 1
    /\ hw_first = hw

(***************************************************************************)
(* The pure helpers, called on inputs drawn from bounded sets.             *)
(***************************************************************************)
MapElems == {0, 1, MaxKey}
MapLists == UNION {[1..n -> MapElems] : n \in 0..MaxMapLen}
LogicalIndices == (0 - 1)..NumQueues

CallMapQueueKey ==
    /\ pc = "pure"
    /\ \E q \in LogicalIndices, m \in MapLists :
          call' = [fn |-> "map", arg |-> q, list |-> m, result |-> MapQueueKey(q, m)]
    /\ UNCHANGED << run, hw_first, hw_map, args, universe, pc, err, out, closeCount, pipe, pg_id,
                    egress_qids, ops, iterOps, hw >>
    /\ UNCHANGED << sweepVars, applyVars, watchVars >>

CallRateToTmUnits ==
    /\ pc = "pure"
    /\ \E r \in RateInputs :
          call' = [fn |-> "rate", arg |-> r, list |-> << >>, result |-> RateToTmUnits(r)]
    /\ UNCHANGED << run, hw_first, hw_map, args, universe, pc, err, out, closeCount, pipe, pg_id,
                    egress_qids, ops, iterOps, hw >>
    /\ UNCHANGED << sweepVars, applyVars, watchVars >>

InitPure ==
    /\ pc = "pure"
    /\ args = DefaultArgs
    /\ universe = Universe("any", {})
    /\ err = "none" /\ out = << >> /\ closeCount = 0 /\ pipe = 0
    /\ pg_id = 0 - 1 /\ egress_qids = << >>
    /\ dp = 0 /\ reset_count = 0 /\ skipped_count = 0
    /\ ops = << >> /\ iterOps = << >> /\ hw = HwInit
    /\ max_rate_units = 0 /\ cur_snap = NoSnap /\ new_snap = NoSnap
    /\ i = 0 /\ elapsed = 0 /\ prev_eg_drop = None /\ prev_q_drops = None
    /\ rec = NoRec /\ nrec = 0
    /\ call = NoCall
    /\ run = 1 /\ hw_first = hw
    /\ hw_map = NoMap

NextPure == CallMapQueueKey \/ CallRateToTmUnits

SpecPure == InitPure /\ [][NextPure]_vars

(***************************************************************************)
(* _get_counter and _get_port_stat, lines 61-75, on the data of a table    *)
(* entry: a set of fields, each with a key, bytes or text, and an integer  *)
(* value.  k.decode("utf-8") gives the name of a bytes key; a str has no   *)
(* decode, so a text key raises AttributeError.  The loop then reads a     *)
(* field with data.get(name, 0), lines 420, 431-433.                       *)
(***************************************************************************)
CounterFields == {"drop_count_packets", "usage_cells", "watermark_cells"}
Encodings == {"bytes", "text"}

EntryField(enc, name, v) == [enc |-> enc, name |-> name, val |-> v]

EntryData ==
    UNION {{{EntryField(enc, n, f[n]) : n \in S} : f \in [S -> 0..MaxCount]} :
               S \in SUBSET CounterFields, enc \in Encodings}

GetCounter(data) ==
    IF \E f \in data : f.enc # "bytes"
    THEN [raised |-> TRUE, data |-> {}]
    ELSE [raised |-> FALSE, data |-> {<< f.name, f.val >> : f \in data}]

CounterGet(data, name, default) ==
    IF \E e \in data : e[1] = name
    THEN (CHOOSE e \in data : e[1] = name)[2]
    ELSE default

CallGetCounter ==
    /\ pc = "pure"
    /\ \E d \in EntryData :
          LET r == GetCounter(d)
          IN  call' = [fn |-> "counter", arg |-> 0, list |-> d,
                       result |-> [raised |-> r.raised, data |-> r.data,
                                   read |-> IF r.raised THEN << >>
                                            ELSE [n \in CounterFields |->
                                                      CounterGet(r.data, n, 0)]]]
    /\ UNCHANGED << run, hw_first, hw_map, args, universe, pc, err, out, closeCount, pipe,
                    pg_id, egress_qids, ops, iterOps, hw >>
    /\ UNCHANGED << sweepVars, applyVars, watchVars >>

SpecCounter == InitPure /\ [][CallGetCounter]_vars

(***************************************************************************)
(* main(), lines 165-258: the dispatch on --mode and --dev-port.           *)
(***************************************************************************)
PipeOfFirstPipeOnly(dev_port) == 0
PipeOf(dev_port) == dev_port \div PipeSize

Dispatch ==
    /\ pc = "main"
    /\ IF args.mode = "reset" /\ IsNone(args.dev_port)
       THEN /\ out' = Append(out, Line("reset_all_banner", 0, 0))
            /\ pc' = "sweep"
            /\ err' = err
       ELSE IF IsNone(args.dev_port)
       THEN /\ pc' = "exit"
            /\ err' = "dev_port_required"
            /\ out' = out
       ELSE /\ out' = IF args.log_file
                      THEN Append(out, Line("command", Val(args.dev_port), args.queue))
                      ELSE out
            /\ pc' = "select_pipe"
            /\ err' = err
    /\ UNCHANGED << run, hw_first, hw_map, args, universe, closeCount, pipe, pg_id, egress_qids,
                    ops, iterOps, hw, call >>
    /\ UNCHANGED << sweepVars, applyVars, watchVars >>

(***************************************************************************)
(* The global reset sweep, lines 182-248.  What the hardware does for one  *)
(* port: whether set_pipe, the port-level mod and the tm.port.cfg get      *)
(* return or raise, the pg_id and queue map the get returns, and the       *)
(* logical queues whose sched_cfg mod raises; the ports that can fail are   *)
(* in port group MaxPgId when they resolve.  In the universe "any" every   *)
(* port can fail in each of these ways; in the universe "F" every fourth   *)
(* port can, the first port of each pipe among them, and the ports between *)
(* are valid ports whose calls return.                                     *)
(***************************************************************************)
QueueFailSets == { {}, {0, NumQueues - 1} }
FlakyPorts == {p \in 0..(NumPorts - 1) : p % 4 = 0}

PortOutcome(pipe_ok, mod_ok, get_ok, pg, qids, qfail) ==
    [pipe_ok |-> pipe_ok, mod_ok |-> mod_ok, get_ok |-> get_ok,
     pg |-> pg, qids |-> qids, qfail |-> qfail]

SweepOutcomes(d, scope) ==
    IF universe.name = "D"
    THEN IF d < 128
         THEN {PortOutcome(TRUE, TRUE, TRUE, pg, qids, {}) :
                   pg \in 0..MaxPgId, qids \in QidMaps}
         ELSE {PortOutcome(TRUE, TRUE, FALSE, 0 - 1, << >>, {})}
    ELSE IF universe.name = "F" /\ d \notin FlakyPorts
    THEN {PortOutcome(TRUE, TRUE, TRUE, MaxPgId, qids, {}) :
              qids \in (IF scope = "port" THEN {<< >>} ELSE QidMaps)}
    ELSE {PortOutcome(FALSE, TRUE, TRUE, 0 - 1, << >>, {}),
          PortOutcome(TRUE, TRUE, FALSE, 0 - 1, << >>, {}),
          PortOutcome(TRUE, TRUE, TRUE, 0 - 1, << >>, {})}
         \cup (IF scope = "port"
               THEN {PortOutcome(TRUE, FALSE, TRUE, 0 - 1, << >>, {}),
                     PortOutcome(TRUE, TRUE, TRUE, 0, << >>, {})}
               ELSE {PortOutcome(TRUE, TRUE, TRUE, MaxPgId, qids, qfail) :
                         qids \in QidMaps, qfail \in QueueFailSets})

(* The body of `for dp in range(0, 256)` for port d: the calls it makes, in
   order, and the counter it increments. *)
SweepQueueOpsStopAtFailure(o) ==
    LET all == [q \in 1..NumQueues |->
                   ModEnableOp("tm.queue.sched_cfg",
                               << o.pg, MapQueueKey(q - 1, o.qids) >>,
                               FALSE, (q - 1) \notin o.qfail)]
        failing == {q \in 1..NumQueues : ~all[q].ok}
    IN  IF failing = {} THEN all
        ELSE SubSeq(all, 1, CHOOSE q \in failing : \A r \in failing : q <= r)
SweepQueueOps(o) ==
    [q \in 1..NumQueues |->
        ModEnableOp("tm.queue.sched_cfg", << o.pg, MapQueueKey(q - 1, o.qids) >>,
                    FALSE, (q - 1) \notin o.qfail)]

SweepCfgFailCountsSkipped(d, scope, o) ==
    LET pipeOp == SetPipeOp(PipeOf(d), o.pipe_ok)
        modOp == ModEnableOp("tm.port.sched_cfg", << d >>, FALSE, o.mod_ok)
        getOp == GetOp("tm.port.cfg", << d >>, o.get_ok)
        pre == IF scope = "port" THEN << pipeOp, modOp >> ELSE << pipeOp >>
    IN  IF ~o.pipe_ok
        THEN [ops |-> << pipeOp >>, counted |-> "skipped"]
        ELSE IF scope = "port" /\ ~o.mod_ok
        THEN [ops |-> << pipeOp, modOp >>, counted |-> "skipped"]
        ELSE IF ~o.get_ok \/ o.pg < 0
        THEN [ops |-> Append(pre, getOp), counted |-> "skipped"]
        ELSE [ops |-> Append(pre, getOp)
                        \o (IF scope = "queue" THEN SweepQueueOps(o) ELSE << >>),
              counted |-> "reset"]

SweepModFailRaises(d, scope, o) ==
    LET pipeOp == SetPipeOp(PipeOf(d), o.pipe_ok)
        modOp == ModEnableOp("tm.port.sched_cfg", << d >>, FALSE, o.mod_ok)
        getOp == GetOp("tm.port.cfg", << d >>, o.get_ok)
        pre == IF scope = "port" THEN << pipeOp, modOp >> ELSE << pipeOp >>
    IN  IF ~o.pipe_ok
        THEN [ops |-> << pipeOp >>, counted |-> "skipped"]
        ELSE IF scope = "port" /\ ~o.mod_ok
        THEN [ops |-> << pipeOp, modOp >>, counted |-> "raised"]
        ELSE IF ~o.get_ok \/ o.pg < 0
        THEN [ops |-> Append(pre, getOp),
              counted |-> IF scope = "port" THEN "reset" ELSE "skipped"]
        ELSE [ops |-> Append(pre, getOp)
                        \o (IF scope = "queue" THEN SweepQueueOps(o) ELSE << >>),
              counted |-> "reset"]

SweepModFailNoContinue(d, scope, o) ==
    LET pipeOp == SetPipeOp(PipeOf(d), o.pipe_ok)
        modOp == ModEnableOp("tm.port.sched_cfg", << d >>, FALSE, o.mod_ok)
        getOp == GetOp("tm.port.cfg", << d >>, o.get_ok)
        pre == IF scope = "port" THEN << pipeOp, modOp >> ELSE << pipeOp >>
    IN  IF ~o.pipe_ok
        THEN [ops |-> << pipeOp >>, counted |-> "skipped"]
        ELSE IF scope = "port" /\ ~o.mod_ok
        THEN [ops |-> << pipeOp, modOp, getOp >>, counted |-> "skipped"]
        ELSE IF ~o.get_ok \/ o.pg < 0
        THEN [ops |-> Append(pre, getOp),
              counted |-> IF scope = "port" THEN "reset" ELSE "skipped"]
        ELSE [ops |-> Append(pre, getOp)
                        \o (IF scope = "queue" THEN SweepQueueOps(o) ELSE << >>),
              counted |-> "reset"]

SweepPortModAtAnyScope(d, scope, o) ==
    LET pipeOp == SetPipeOp(PipeOf(d), o.pipe_ok)
        modOp == ModEnableOp("tm.port.sched_cfg", << d >>, FALSE, o.mod_ok)
        getOp == GetOp("tm.port.cfg", << d >>, o.get_ok)
        pre == << pipeOp, modOp >>
    IN  IF ~o.pipe_ok
        THEN [ops |-> << pipeOp >>, counted |-> "skipped"]
        ELSE IF ~o.mod_ok
        THEN [ops |-> << pipeOp, modOp >>, counted |-> "skipped"]
        ELSE IF ~o.get_ok \/ o.pg < 0
        THEN [ops |-> Append(pre, getOp),
              counted |-> IF scope = "port" THEN "reset" ELSE "skipped"]
        ELSE [ops |-> Append(pre, getOp)
                        \o (IF scope = "queue" THEN SweepQueueOps(o) ELSE << >>),
              counted |-> "reset"]

SweepPortBody(d, scope, o) ==
    LET pipeOp == SetPipeOp(PipeOf(d), o.pipe_ok)
        modOp == ModEnableOp("tm.port.sched_cfg", << d >>, FALSE, o.mod_ok)
        getOp == GetOp("tm.port.cfg", << d >>, o.get_ok)
        pre == IF scope = "port" THEN << pipeOp, modOp >> ELSE << pipeOp >>
    IN  IF ~o.pipe_ok
        THEN [ops |-> << pipeOp >>, counted |-> "skipped"]
        ELSE IF scope = "port" /\ ~o.mod_ok
        THEN [ops |-> << pipeOp, modOp >>, counted |-> "skipped"]
        ELSE IF ~o.get_ok \/ o.pg < 0
        THEN [ops |-> Append(pre, getOp),
              counted |-> IF scope = "port" THEN "reset" ELSE "skipped"]
        ELSE [ops |-> Append(pre, getOp)
                        \o (IF scope = "queue" THEN SweepQueueOps(o) ELSE << >>),
              counted |-> "reset"]

SweepPort ==
    /\ pc = "sweep"
    /\ dp < NumPorts
    /\ \E o \in SweepOutcomes(dp, args.scope) :
          LET r == SweepPortBody(dp, args.scope, o)
              read == \E k \in 1..Len(r.ops) :
                          r.ops[k].op = "get" /\ r.ops[k].ok
          IN  /\ iterOps' = r.ops
              /\ pipe' = IF o.pipe_ok THEN PipeOf(dp) ELSE pipe
              /\ pg_id' = IF read THEN o.pg ELSE pg_id
              /\ egress_qids' = IF read THEN o.qids ELSE egress_qids
              /\ IF r.counted = "raised"
                 THEN /\ pc' = "crashed"
                      /\ err' = "hardware_error"
                      /\ UNCHANGED << reset_count, skipped_count >>
                 ELSE /\ reset_count' = reset_count + (IF r.counted = "reset" THEN 1 ELSE 0)
                      /\ skipped_count' = skipped_count + (IF r.counted = "skipped" THEN 1 ELSE 0)
                      /\ pc' = "swept"
                      /\ err' = err
    /\ UNCHANGED << run, hw_first, hw_map, args, universe, out, closeCount,
                    ops, hw, call, dp >>
    /\ UNCHANGED << applyVars, watchVars >>

(* Line 190: the for statement takes the next port.  pg_id and egress_qids
   (lines 209-210) are assigned in an iteration before it reads them: what an
   earlier port left in them is dead here, and the model forgets it. *)
SweepNext ==
    /\ pc = "swept"
    /\ dp' = dp + 1
    /\ iterOps' = << >>
    /\ pg_id' = 0 - 1
    /\ egress_qids' = << >>
    /\ pc' = "sweep"
    /\ UNCHANGED << run, hw_first, hw_map, args, universe, err, out, closeCount, pipe,
                    ops, hw, call, reset_count, skipped_count >>
    /\ UNCHANGED << applyVars, watchVars >>

(* Lines 246-248: the summary line, the close of the writer, the return. *)
SweepDone ==
    /\ pc = "sweep"
    /\ dp = NumPorts
    /\ out' = Append(out, Line("reset_summary", reset_count, skipped_count))
    /\ closeCount' = closeCount + 1
    /\ pc' = "done"
    /\ UNCHANGED << run, hw_first, hw_map, args, universe, err, pipe, pg_id, egress_qids,
                    ops, iterOps, hw, call >>
    /\ UNCHANGED << sweepVars, applyVars, watchVars >>

SweepArgs ==
    {[DefaultArgs EXCEPT !.mode = "reset", !.scope = s] : s \in Scopes}

InitSweep == InitWith(SweepArgs, {Universe("any", {}), Universe("D", {})}, {HwInit})
NextSweep == Dispatch \/ SweepPort \/ SweepNext \/ SweepDone
SpecSweep == InitSweep /\ [][NextSweep]_vars

(* The sweep in the universe of scenario D alone. *)
InitSweepD == InitWith(SweepArgs, {Universe("D", {})}, {HwInit})
SpecSweepD == InitSweepD /\ [][NextSweep]_vars

(* The sweeps that run beside the other modes: over the universe of
   scenario D and over the one where every fourth port can fail. *)
InitSweepF == InitWith(SweepArgs, {Universe("F", {}), Universe("D", {})}, {HwInit})

(***************************************************************************)
(* A run on one device port, lines 260-279: the pipe is selected and the   *)
(* port-group mapping is read.  An exception of a hardware call is caught  *)
(* nowhere on this path: it ends the run.                                  *)
(***************************************************************************)
Crash(e) == pc' = "crashed" /\ err' = e

AfterResolveResetFallsThrough ==
    IF args.mode = "apply" THEN "apply" ELSE "watch_setup"
AfterResolve ==
    IF args.mode = "apply" THEN "apply"
    ELSE IF args.mode = "reset" THEN "reset_single"
    ELSE "watch_setup"

SelectPipe ==
    /\ pc = "select_pipe"
    /\ \E ok \in BOOLEAN :
          /\ ops' = Append(ops, SetPipeOp(PipeOf(Val(args.dev_port)), ok))
          /\ IF ok
             THEN /\ pipe' = PipeOf(Val(args.dev_port))
                  /\ pc' = "resolve"
                  /\ err' = err
             ELSE /\ pipe' = pipe
                  /\ Crash("hardware_error")
    /\ UNCHANGED << run, hw_first, hw_map, args, universe, out, closeCount, pg_id, egress_qids,
                    iterOps, hw, call >>
    /\ UNCHANGED << sweepVars, applyVars, watchVars >>

(* _get_pg_mapping and the check of its pg_id, lines 269-271: the read
   returns what tm.port.cfg holds for the port at that moment. *)
ResolveAcceptsUnresolved(pg) == FALSE
ResolveFails(pg) == pg < 0

Resolve ==
    /\ pc = "resolve"
    /\ \E ok \in BOOLEAN, pg \in {hw_map.pg}, qids \in {hw_map.qids} :
          /\ ops' = Append(ops, GetOp("tm.port.cfg", << Val(args.dev_port) >>, ok))
          /\ IF ~ok
             THEN /\ Crash("hardware_error")
                  /\ UNCHANGED << pg_id, egress_qids >>
             ELSE /\ pg_id' = pg
                  /\ egress_qids' = qids
                  /\ IF ResolveFails(pg)
                     THEN Crash("resolve_failed")
                     ELSE pc' = AfterResolve /\ err' = err
    /\ UNCHANGED << run, hw_first, hw_map, args, universe, out, closeCount, pipe, iterOps,
                    hw, call >>
    /\ UNCHANGED << sweepVars, applyVars, watchVars >>

(***************************************************************************)
(* The shaping tables of the target: the scheduler-config table holds the  *)
(* enable flag, the shaping table the rate.                                *)
(***************************************************************************)
CfgTable(scope) ==
    IF scope = "port" THEN "tm.port.sched_cfg" ELSE "tm.queue.sched_cfg"
ShapingTable(scope) ==
    IF scope = "port" THEN "tm.port.sched_shaping" ELSE "tm.queue.sched_shaping"

HwEnable(h, scope, key) ==
    IF scope = "port" THEN h.port_enable ELSE key[2] \in h.q_enabled
HwRate(h, scope, key) ==
    IF scope = "port" THEN h.port_rate
    ELSE IF \E e \in h.q_rates : e[1] = key[2]
         THEN (CHOOSE e \in h.q_rates : e[1] = key[2])[2]
         ELSE DefaultMaxRate
HwSetEnable(h, scope, key, enable) ==
    IF scope = "port" THEN [h EXCEPT !.port_enable = enable]
    ELSE [h EXCEPT !.q_enabled =
              IF enable THEN @ \cup {key[2]} ELSE @ \ {key[2]}]
HwSetRate(h, scope, key, units) ==
    IF scope = "port" THEN [h EXCEPT !.port_rate = units]
    ELSE [h EXCEPT !.q_rates =
              {e \in @ : e[1] # key[2]} \cup {<< key[2], units >>}]

(***************************************************************************)
(* Apply, lines 281-350.                                                   *)
(***************************************************************************)
(* Lines 282-287; --max-gbps and --max-mbps are modelled on whole numbers. *)
ApplyMaxBps(a) ==
    IF ~IsNone(a.max_bps) THEN a.max_bps
    ELSE IF ~IsNone(a.max_gbps) THEN Some(Val(a.max_gbps) * 1000000000)
    ELSE IF ~IsNone(a.max_mbps) THEN Some(Val(a.max_mbps) * 1000000)
    ELSE None

(* Lines 294-302, 314-346: apply addresses a queue by --queue itself. *)
ApplyKey ==
    IF args.scope = "port" THEN << Val(args.dev_port) >>
    ELSE << pg_id, args.queue >>

(* Line 291. *)
ApplyRateUnitsUnconverted(a) == Val(ApplyMaxBps(a))
ApplyRateUnitsAddedToCurrent(a) ==
    HwRate(hw, args.scope, ApplyKey) + RateToTmUnits(Val(ApplyMaxBps(a)))
ApplyRateUnits(a) == RateToTmUnits(Val(ApplyMaxBps(a)))

ApplyRate ==
    /\ pc = "apply"
    /\ IF IsNone(ApplyMaxBps(args))
       THEN /\ pc' = "exit"
            /\ err' = "rate_required"
            /\ max_rate_units' = max_rate_units
       ELSE /\ max_rate_units' = ApplyRateUnits(args)
            /\ pc' = "apply_read"
            /\ err' = err
    /\ UNCHANGED << run, hw_first, hw_map, args, universe, out, closeCount, pipe, pg_id, egress_qids,
                    ops, iterOps, hw, call, cur_snap, new_snap >>
    /\ UNCHANGED << sweepVars, watchVars >>

(* The two reads of a snapshot: n = 0, 1: the first or second get raises;
   n = 2: both return. *)
SnapshotOps(n) ==
    IF n = 0 THEN << GetOp(CfgTable(args.scope), ApplyKey, FALSE) >>
    ELSE << GetOp(CfgTable(args.scope), ApplyKey, TRUE),
            GetOp(ShapingTable(args.scope), ApplyKey, n = 2) >>

Snapshot(h) ==
    [cfg |-> HwEnable(h, args.scope, ApplyKey), rate |-> HwRate(h, args.scope, ApplyKey)]

ApplyReadCurrent ==
    /\ pc = "apply_read"
    /\ \E n \in 0..2 :
          /\ ops' = ops \o SnapshotOps(n)
          /\ IF n < 2
             THEN /\ Crash("hardware_error")
                  /\ UNCHANGED << cur_snap, out >>
             ELSE /\ cur_snap' = Snapshot(hw)
                  /\ out' = out
                       \o << Line("applying", Val(args.dev_port), args.queue) >>
                       \o (IF egress_qids # << >>
                           THEN << Line("egress_qid_map", 0, 0) >> ELSE << >>)
                       \o << Line("target_max_rate", Val(ApplyMaxBps(args)), max_rate_units),
                             Line("cur_sched_cfg", IF Snapshot(hw).cfg THEN 1 ELSE 0, 0),
                             Line("cur_sched_shaping", Snapshot(hw).rate, 0) >>
                  /\ pc' = "apply_enable"
                  /\ err' = err
    /\ UNCHANGED << run, hw_first, hw_map, args, universe, closeCount, pipe, pg_id, egress_qids,
                    iterOps, hw, call, max_rate_units, new_snap >>
    /\ UNCHANGED << sweepVars, watchVars >>

ApplyWriteEnable ==
    /\ pc = "apply_enable"
    /\ \E ok \in BOOLEAN :
          /\ ops' = Append(ops, ModEnableOp(CfgTable(args.scope), ApplyKey, TRUE, ok))
          /\ IF ok
             THEN /\ hw' = HwSetEnable(hw, args.scope, ApplyKey, TRUE)
                  /\ pc' = "apply_rate"
                  /\ err' = err
             ELSE /\ hw' = hw
                  /\ Crash("hardware_error")
    /\ UNCHANGED << run, hw_first, hw_map, args, universe, out, closeCount, pipe, pg_id, egress_qids,
                    iterOps, call >>
    /\ UNCHANGED << sweepVars, applyVars, watchVars >>

ApplyWriteRateWithRollback ==
    /\ pc = "apply_rate"
    /\ \E ok \in BOOLEAN :
          /\ IF ok
             THEN /\ ops' = Append(ops, ModRateOp(ShapingTable(args.scope), ApplyKey,
                                                  max_rate_units, TRUE))
                  /\ hw' = HwSetRate(hw, args.scope, ApplyKey, max_rate_units)
                  /\ pc' = "apply_reread"
                  /\ err' = err
             ELSE /\ ops' = ops \o << ModRateOp(ShapingTable(args.scope), ApplyKey,
                                                max_rate_units, FALSE),
                                      ModEnableOp(CfgTable(args.scope), ApplyKey,
                                                  cur_snap.cfg, TRUE) >>
                  /\ hw' = HwSetEnable(hw, args.scope, ApplyKey, cur_snap.cfg)
                  /\ Crash("hardware_error")
    /\ UNCHANGED << run, hw_first, hw_map, args, universe, out, closeCount, pipe, pg_id, egress_qids,
                    iterOps, call >>
    /\ UNCHANGED << sweepVars, applyVars, watchVars >>

ApplyWriteRate ==
    /\ pc = "apply_rate"
    /\ \E ok \in BOOLEAN :
          /\ ops' = Append(ops, ModRateOp(ShapingTable(args.scope), ApplyKey,
                                           max_rate_units, ok))
          /\ IF ok
             THEN /\ hw' = HwSetRate(hw, args.scope, ApplyKey, max_rate_units)
                  /\ pc' = "apply_reread"
                  /\ err' = err
             ELSE /\ hw' = hw
                  /\ Crash("hardware_error")
    /\ UNCHANGED << run, hw_first, hw_map, args, universe, out, closeCount, pipe, pg_id, egress_qids,
                    iterOps, call >>
    /\ UNCHANGED << sweepVars, applyVars, watchVars >>

ApplyReadBack ==
    /\ pc = "apply_reread"
    /\ \E n \in 0..2 :
          /\ ops' = ops \o SnapshotOps(n)
          /\ IF n < 2
             THEN /\ Crash("hardware_error")
                  /\ UNCHANGED << new_snap, out, closeCount >>
             ELSE /\ new_snap' = Snapshot(hw)
                  /\ out' = out
                       \o << Line("new_sched_cfg", IF Snapshot(hw).cfg THEN 1 ELSE 0, 0),
                             Line("new_sched_shaping", Snapshot(hw).rate, 0) >>
                  /\ closeCount' = closeCount + 1
                  /\ pc' = "done"
                  /\ err' = err
    /\ UNCHANGED << run, hw_first, hw_map, args, universe, pipe, pg_id, egress_qids,
                    iterOps, hw, call, max_rate_units, cur_snap >>
    /\ UNCHANGED << sweepVars, watchVars >>

(***************************************************************************)
(* The reset of one target, lines 352-373.                                 *)
(***************************************************************************)
ResetKeyRawQueue ==
    IF args.scope = "port" THEN << Val(args.dev_port) >>
    ELSE << pg_id, args.queue >>
ResetKey ==
    IF args.scope = "port" THEN << Val(args.dev_port) >>
    ELSE << pg_id, MapQueueKey(args.queue, egress_qids) >>

ResetWrite ==
    /\ pc = "reset_single"
    /\ out' = Append(out, Line("resetting", Val(args.dev_port), args.queue))
    /\ \E ok \in BOOLEAN :
          /\ ops' = Append(ops, ModEnableOp(CfgTable(args.scope), ResetKey, FALSE, ok))
          /\ IF ok
             THEN /\ hw' = HwSetEnable(hw, args.scope, ResetKey, FALSE)
                  /\ pc' = "reset_reread"
                  /\ err' = err
             ELSE /\ hw' = hw
                  /\ Crash("hardware_error")
    /\ UNCHANGED << run, hw_first, hw_map, args, universe, closeCount, pipe, pg_id, egress_qids,
                    iterOps, call >>
    /\ UNCHANGED << sweepVars, applyVars, watchVars >>

ResetReadBack ==
    /\ pc = "reset_reread"
    /\ \E ok \in BOOLEAN :
          /\ ops' = Append(ops, GetOp(CfgTable(args.scope), ResetKey, ok))
          /\ IF ok
             THEN /\ new_snap' = [cfg |-> HwEnable(hw, args.scope, ResetKey),
                                  rate |-> NoSnap.rate]
                  /\ out' = Append(out, Line("new_sched_cfg",
                                 IF HwEnable(hw, args.scope, ResetKey) THEN 1 ELSE 0, 0))
                  /\ closeCount' = closeCount + 1
                  /\ pc' = "done"
                  /\ err' = err
             ELSE /\ Crash("hardware_error")
                  /\ UNCHANGED << new_snap, out, closeCount >>
    /\ UNCHANGED << run, hw_first, hw_map, args, universe, pipe, pg_id, egress_qids,
                    iterOps, hw, call, max_rate_units, cur_snap >>
    /\ UNCHANGED << sweepVars, watchVars >>

(* The runs of apply and of the reset of one target. *)
ApplyRates ==
    {[max_bps |-> b, max_gbps |-> None, max_mbps |-> None] :
         b \in {None} \cup {Some(r) : r \in RateInputs}}
      \cup {[max_bps |-> None, max_gbps |-> Some(2), max_mbps |-> m] :
                m \in {None, Some(100)}}
      \cup {[max_bps |-> None, max_gbps |-> None, max_mbps |-> Some(100)],
            [max_bps |-> Some(5000), max_gbps |-> Some(2), max_mbps |-> None]}

ApplyArgs ==
    {[DefaultArgs EXCEPT !.mode = "apply", !.scope = s, !.dev_port = d, !.queue = q,
                         !.max_bps = r.max_bps, !.max_gbps = r.max_gbps,
                         !.max_mbps = r.max_mbps, !.log_file = lf] :
         s \in Scopes, d \in {None} \cup {Some(x) : x \in DevPorts},
         q \in QueueArgs, r \in ApplyRates, lf \in BOOLEAN}

ResetSingleArgs ==
    {[DefaultArgs EXCEPT !.mode = "reset", !.scope = s, !.dev_port = Some(d),
                         !.queue = q, !.log_file = lf] :
         s \in Scopes, d \in DevPorts, q \in QueueArgs, lf \in BOOLEAN}

(* Shaping off everywhere, or on with a rate set by an earlier run. *)
HwShaped ==
    [port_enable |-> TRUE, port_rate |-> 5000,
     q_enabled |-> QKeys, q_rates |-> {<< k, 5000 >> : k \in QKeys}]

InitShape ==
    InitWith(ApplyArgs \cup ResetSingleArgs, {Universe("any", {})}, {HwInit, HwShaped})
NextShape ==
    \/ Dispatch \/ SelectPipe \/ Resolve
    \/ ApplyRate \/ ApplyReadCurrent \/ ApplyWriteEnable \/ ApplyWriteRate
    \/ ApplyReadBack
    \/ ResetWrite \/ ResetReadBack
SpecShape == InitShape /\ [][NextShape]_vars

(***************************************************************************)
(* The same apply or reset command run twice in a row, with no other       *)
(* writer in between: the second main() starts from its own fresh          *)
(* variables and meets the tables, the selected pipe and the port mapping  *)
(* the first run left.                                                     *)
(***************************************************************************)
RunAgain ==
    /\ pc = "done"
    /\ run = 1
    /\ run' = 2
    /\ hw_first' = hw
    /\ pc' = "main"
    /\ out' = << >>
    /\ closeCount' = 0
    /\ ops' = << >>
    /\ max_rate_units' = 0
    /\ cur_snap' = NoSnap
    /\ new_snap' = NoSnap
    /\ UNCHANGED << args, universe, err, pipe, pg_id, egress_qids, iterOps, hw, call,
                    hw_map >>
    /\ UNCHANGED << sweepVars, watchVars >>

NextTwice ==
    \/ Dispatch \/ SelectPipe \/ Resolve
    \/ ApplyRate \/ ApplyReadCurrent \/ ApplyWriteEnable \/ ApplyWriteRate
    \/ ApplyReadBack
    \/ ResetWrite \/ ResetReadBack
    \/ RunAgain
SpecTwice == InitShape /\ [][NextTwice]_vars

(***************************************************************************)
(* Watch mode, lines 375-475.                                              *)
(***************************************************************************)
(* Lines 380-404: the optional counter clear, then the header. "absent":
   tm.counter has no callable clear. *)
ClearOutcomes ==
    IF args.clear_counters THEN {"absent", "returns", "raises"} ELSE {"not_asked"}

WatchHeader ==
    IF args.all_queues
    THEN (IF egress_qids # << >> THEN << Line("egress_qid_queues", 0, 0) >> ELSE << >>)
            \o << Line("header_all_queues", 0, 0) >>
    ELSE << Line("header_single_queue", 0, 0) >>

WatchSetup ==
    /\ pc = "watch_setup"
    /\ \E c \in ClearOutcomes :
          /\ ops' = IF c \in {"returns", "raises"} THEN Append(ops, [ClearOp EXCEPT !.ok = (c = "returns")])
                    ELSE ops
          /\ IF c = "raises"
             THEN /\ Crash("hardware_error")
                  /\ out' = out
             ELSE /\ out' = out \o WatchHeader
                  /\ pc' = "watch_check"
                  /\ err' = err
    /\ i' = 0
    /\ elapsed' = 0
    /\ prev_eg_drop' = None
    /\ prev_q_drops' = None
    /\ UNCHANGED << run, hw_first, hw_map, args, universe, closeCount, pipe, pg_id, egress_qids,
                    iterOps, hw, call, rec, nrec >>
    /\ UNCHANGED << sweepVars, applyVars >>

(* Lines 411-415: the two bounds, looked at before an iteration.  The model
   follows a loop without a bound for MaxIter iterations. *)
WatchStopOneLate ==
    \/ ~IsNone(args.duration) /\ elapsed >= Val(args.duration)
    \/ ~IsNone(args.iterations) /\ i > Val(args.iterations)
WatchStop ==
    \/ ~IsNone(args.duration) /\ elapsed >= Val(args.duration)
    \/ ~IsNone(args.iterations) /\ i >= Val(args.iterations)

WatchCheck ==
    /\ pc = "watch_check"
    /\ WatchStop \/ i < MaxIter
    /\ pc' = IF WatchStop THEN "watch_close" ELSE "watch_sample"
    /\ UNCHANGED << run, hw_first, hw_map, args, universe, err, out, closeCount, pipe, pg_id, egress_qids,
                    ops, iterOps, hw, call >>
    /\ UNCHANGED << sweepVars, applyVars, watchVars >>

(* The reads of one iteration, lines 417-418, 428-433, 455-456, in order. *)
WatchQueueKeysFromHardware ==
    IF args.all_queues
    THEN [q \in 1..NumQueues |-> << hw_map.pg, MapQueueKey(q - 1, hw_map.qids) >>]
    ELSE << << hw_map.pg, MapQueueKey(args.queue, hw_map.qids) >> >>
WatchQueueKeys ==
    IF args.all_queues
    THEN [q \in 1..NumQueues |-> << pg_id, MapQueueKey(q - 1, egress_qids) >>]
    ELSE << << pg_id, MapQueueKey(args.queue, egress_qids) >> >>

WatchReadsClearingFirst ==
    << ClearOp,
       GetOp("tm.counter.eg_port", << Val(args.dev_port) >>, TRUE),
       GetOp("port.port_stat", << Val(args.dev_port) >>, TRUE) >>
      \o [k \in 1..Len(WatchQueueKeys) |->
             GetOp("tm.counter.queue", WatchQueueKeys[k], TRUE)]
WatchReadsQueuesFirst ==
    [k \in 1..Len(WatchQueueKeys) |-> GetOp("tm.counter.queue", WatchQueueKeys[k], TRUE)]
      \o << GetOp("tm.counter.eg_port", << Val(args.dev_port) >>, TRUE),
            GetOp("port.port_stat", << Val(args.dev_port) >>, TRUE) >>
WatchReads ==
    << GetOp("tm.counter.eg_port", << Val(args.dev_port) >>, TRUE),
       GetOp("port.port_stat", << Val(args.dev_port) >>, TRUE) >>
      \o [k \in 1..Len(WatchQueueKeys) |->
             GetOp("tm.counter.queue", WatchQueueKeys[k], TRUE)]

(* The reads up to the k-th, which raises. *)
WatchReadsFailingAt(k) ==
    [j \in 1..k |-> IF j = k THEN [WatchReads[j] EXCEPT !.ok = FALSE] ELSE WatchReads[j]]

(* What the drop counters read in this iteration. *)
EgReadings == IF universe.name = "C" THEN {0} ELSE 0..MaxCount

QueueReadings ==
    IF universe.name = "C" THEN { << ScenarioC[i + 1] >> }
    ELSE IF args.all_queues
    THEN {[q \in 1..NumQueues |-> IF (q - 1) \in universe.busy THEN f[q - 1] ELSE 0] :
              f \in [universe.busy -> 0..MaxCount]}
    ELSE {<< v >> : v \in (IF args.queue \in universe.busy THEN 0..MaxCount ELSE {0})}

WatchOutcomes ==
    {[fail |-> 0, eg |-> e, q |-> qs] : e \in EgReadings, qs \in QueueReadings}
      \cup (IF universe.name = "any"
            THEN {[fail |-> k, eg |-> 0, q |-> << >>] : k \in 1..Len(WatchReads)}
            ELSE {})

(* Line 442. *)
UnattributedSigned(d_eg_drop, sum_d_q) == d_eg_drop - sum_d_q
Unattributed(d_eg_drop, sum_d_q) == Max2(0, d_eg_drop - sum_d_q)

(* Lines 420-421, 435-442, 457-463: the record of an iteration from its raw
   readings and the previous ones. *)
WatchRecordFirstFromZero(all, eg_drop, q_drops, pe, pq) ==
    LET d_eg == IF IsNone(pe) THEN Delta(eg_drop, 0) ELSE Delta(eg_drop, Val(pe))
        d_q == IF IsNone(pq)
               THEN [k \in 1..Len(q_drops) |-> Delta(q_drops[k], 0)]
               ELSE [k \in 1..Len(q_drops) |-> Delta(q_drops[k], pq[k])]
    IN  [kind |-> IF all THEN "all" ELSE "single",
         eg_drop |-> eg_drop, d_eg_drop |-> d_eg,
         q_drops |-> q_drops, d_q_drops |-> d_q,
         sum_d_q |-> IF all THEN SumSeq(d_q) ELSE 0,
         d_unattributed |-> IF all THEN Unattributed(d_eg, SumSeq(d_q)) ELSE 0]

WatchRecord(all, eg_drop, q_drops, pe, pq) ==
    LET d_eg == IF IsNone(pe) THEN 0 ELSE Delta(eg_drop, Val(pe))
        d_q == IF IsNone(pq)
               THEN [k \in 1..Len(q_drops) |-> 0]
               ELSE [k \in 1..Len(q_drops) |-> Delta(q_drops[k], pq[k])]
    IN  [kind |-> IF all THEN "all" ELSE "single",
         eg_drop |-> eg_drop, d_eg_drop |-> d_eg,
         q_drops |-> q_drops, d_q_drops |-> d_q,
         sum_d_q |-> IF all THEN SumSeq(d_q) ELSE 0,
         d_unattributed |-> IF all THEN Unattributed(d_eg, SumSeq(d_q)) ELSE 0]

(* Lines 417-471.  A read that raises is caught nowhere: the run ends with
   the record of the iteration unwritten. *)
WatchSample ==
    /\ pc = "watch_sample"
    /\ \E o \in WatchOutcomes :
          IF o.fail > 0
          THEN /\ iterOps' = WatchReadsFailingAt(o.fail)
               /\ Crash("hardware_error")
               /\ UNCHANGED << i, prev_eg_drop, prev_q_drops, rec, nrec >>
          ELSE /\ iterOps' = WatchReads
               /\ rec' = WatchRecord(args.all_queues, o.eg, o.q, prev_eg_drop, prev_q_drops)
               /\ nrec' = nrec + 1
               /\ prev_eg_drop' = Some(o.eg)
               /\ prev_q_drops' = o.q
               /\ i' = i + 1
               /\ pc' = "watch_sleep"
               /\ err' = err
    /\ UNCHANGED << run, hw_first, hw_map, args, universe, out, closeCount, pipe, pg_id, egress_qids,
                    ops, hw, call, elapsed >>
    /\ UNCHANGED << sweepVars, applyVars >>

(* Line 472: time.sleep raises ValueError on a negative interval.  The clock
   of line 411 then shows the interval slept, or more: the reads take time
   too.  The clock is compared with --duration alone, so the model lets it
   run late only in the runs that give one. *)
SleepOverrun == IF IsNone(args.duration) THEN {0} ELSE {0, 1}

(* Line 472: the argument of time.sleep is --interval as it was given. *)
SleepDuration == args.interval

WatchSleep ==
    /\ pc = "watch_sleep"
    /\ IF SleepDuration < 0
       THEN /\ Crash("sleep_negative")
            /\ elapsed' = elapsed
       ELSE /\ \E late \in SleepOverrun : elapsed' = elapsed + SleepDuration + late
            /\ pc' = "watch_check"
            /\ err' = err
    /\ UNCHANGED << run, hw_first, hw_map, args, universe, out, closeCount, pipe, pg_id, egress_qids,
                    ops, iterOps, hw, call, i, prev_eg_drop, prev_q_drops, rec, nrec >>
    /\ UNCHANGED << sweepVars, applyVars >>

(* Lines 410-472 catch no KeyboardInterrupt: Ctrl+C in the loop ends the run
   by that exception, and line 475 is not reached. *)
WatchInterrupt ==
    /\ pc \in {"watch_check", "watch_sample", "watch_sleep"}
    /\ Crash("interrupted")
    /\ UNCHANGED << run, hw_first, hw_map, args, universe, out, closeCount, pipe, pg_id, egress_qids,
                    ops, iterOps, hw, call >>
    /\ UNCHANGED << sweepVars, applyVars, watchVars >>

(* The port's mapping is hardware state that another writer (a port being
   re-added, the control plane) can change while a session runs; the program
   would see the change at its next read of tm.port.cfg.  The model lets the
   port's queues be renumbered once, during the sleep after the first
   record of a session whose queue drop counters stand still: a port without
   a queue map gets one, a port with one loses it. *)
RenumberedQueues(qids) ==
    IF qids = << >> THEN [k \in 1..NumQueues |-> (k + 1) % NumQueues] ELSE << >>

MappingChanges ==
    /\ pc = "watch_sleep"
    /\ nrec = 1
    /\ universe = Universe("any", {})
    /\ hw_map = [pg |-> pg_id, qids |-> egress_qids]
    /\ hw_map' = [hw_map EXCEPT !.qids = RenumberedQueues(@)]
    /\ UNCHANGED << run, hw_first, args, universe, pc, err, out, closeCount, pipe,
                    pg_id, egress_qids, ops, iterOps, hw, call >>
    /\ UNCHANGED << sweepVars, applyVars, watchVars >>

(* Line 475. *)
WatchClose ==
    /\ pc = "watch_close"
    /\ closeCount' = closeCount + 1
    /\ pc' = "done"
    /\ UNCHANGED << run, hw_first, hw_map, args, universe, err, out, pipe, pg_id, egress_qids,
                    ops, iterOps, hw, call >>
    /\ UNCHANGED << sweepVars, applyVars, watchVars >>

(* The watch runs: the default run on port 5 with each bound on the
   iterations, a run on a port of pipe 1 that clears the counters, the runs
   with a --duration, the runs with an --interval of zero or less, the runs
   with a bound below zero, and the run without --dev-port. *)
WatchArgs ==
    {[DefaultArgs EXCEPT !.dev_port = Some(5), !.all_queues = a, !.iterations = n] :
         a \in BOOLEAN, n \in {None, Some(0), Some(MaxIter)}}
      \cup {[DefaultArgs EXCEPT !.dev_port = Some(5), !.iterations = Some(3)],
            [DefaultArgs EXCEPT !.dev_port = Some(5), !.all_queues = TRUE,
                                !.iterations = Some(2)]}
      \cup {[DefaultArgs EXCEPT !.dev_port = Some(200), !.all_queues = a,
                                !.queue = NumQueues - 1, !.clear_counters = TRUE,
                                !.iterations = Some(MaxIter)] : a \in BOOLEAN}
      \cup {[DefaultArgs EXCEPT !.dev_port = Some(5), !.duration = Some(d),
                                !.iterations = n, !.interval = v] :
                d \in {0, 2}, n \in {None, Some(1)}, v \in {1, 2}}
      \cup {[DefaultArgs EXCEPT !.dev_port = Some(5), !.iterations = Some(2),
                                !.interval = v] : v \in {0 - 1, 0}}
      \cup {[DefaultArgs EXCEPT !.dev_port = Some(5), !.iterations = Some(0 - 1)],
            [DefaultArgs EXCEPT !.dev_port = Some(5), !.duration = Some(0 - 1)]}
      \cup {[DefaultArgs EXCEPT !.all_queues = a] : a \in BOOLEAN}

WatchUniverses ==
    {Universe("any", b) : b \in BusySets} \cup {Universe("C", {})}

InitWatch == InitWith(WatchArgs, WatchUniverses, {HwInit})
NextWatch ==
    \/ Dispatch \/ SelectPipe \/ Resolve
    \/ WatchSetup \/ WatchCheck \/ WatchSample \/ WatchSleep \/ WatchClose
    \/ WatchInterrupt \/ MappingChanges
SpecWatch == InitWatch /\ [][NextWatch]_vars

(* The watch runs on hardware whose queue drop counters stand still.  main()
   is sequential code: while a statement can run, one runs. *)
InitWatchFair == InitWith(WatchArgs, {Universe("any", {})}, {HwInit})
SpecWatchFair == InitWatchFair /\ [][NextWatch]_vars /\ WF_vars(NextWatch)

(***************************************************************************)
(* Every run of the program.                                               *)
(***************************************************************************)
Init ==
    \/ InitSweepF
    \/ InitShape
    \/ InitWatch
Next ==
    \/ Dispatch \/ SweepPort \/ SweepNext \/ SweepDone
    \/ SelectPipe \/ Resolve
    \/ ApplyRate \/ ApplyReadCurrent \/ ApplyWriteEnable \/ ApplyWriteRate
    \/ ApplyReadBack
    \/ ResetWrite \/ ResetReadBack
    \/ WatchSetup \/ WatchCheck \/ WatchSample \/ WatchSleep \/ WatchClose
    \/ WatchInterrupt \/ MappingChanges
Spec == Init /\ [][Next]_vars

(* The runs on one device port: apply, the reset of one target, watch. *)
InitSingle == InitShape \/ InitWatch
NextSingle ==
    \/ Dispatch \/ SelectPipe \/ Resolve
    \/ ApplyRate \/ ApplyReadCurrent \/ ApplyWriteEnable \/ ApplyWriteRate
    \/ ApplyReadBack
    \/ ResetWrite \/ ResetReadBack
    \/ WatchSetup \/ WatchCheck \/ WatchSample \/ WatchSleep \/ WatchClose
    \/ WatchInterrupt \/ MappingChanges
SpecSingle == InitSingle /\ [][NextSingle]_vars

(***************************************************************************)
(* Properties of the watch records.                                        *)
(***************************************************************************)
(* d is max(0, cur - prev), said without Delta. *)
IsMaxZeroDiff(d, cur, prev) == IF cur >= prev THEN d = cur - prev ELSE d = 0

RecordWritten == pc = "watch_sample" /\ pc' = "watch_sleep"

(* C1: in watch mode, single-queue or all-queues, every delta of every record
   (d_egress_drop, d_queue_drop, each of the 8 d_q_drop) is >= 0, and from the
   second record on it is max(0, current - previous) of the raw readings of
   this record and of the record before, also when the reading went down. *)
C1_DeltasNeverNegative ==
    [][ RecordWritten =>
          /\ Len(rec'.d_q_drops) = (IF args.all_queues THEN NumQueues ELSE 1)
          /\ Len(rec'.q_drops) = Len(rec'.d_q_drops)
          /\ rec'.d_eg_drop >= 0
          /\ \A k \in 1..Len(rec'.d_q_drops) : rec'.d_q_drops[k] >= 0
          /\ nrec >= 1 =>
                /\ IsMaxZeroDiff(rec'.d_eg_drop, rec'.eg_drop, rec.eg_drop)
                /\ \A k \in 1..Len(rec'.d_q_drops) :
                      IsMaxZeroDiff(rec'.d_q_drops[k], rec'.q_drops[k], rec.q_drops[k])
      ]_vars

C1_Witness ==
    /\ universe.name = "C"
    /\ pc = "watch_sleep"
    /\ nrec = 3
    /\ rec.q_drops = << 125 >>
    /\ rec.d_q_drops = << 0 >>

(* C2: the first record of a watch run has delta 0 for the egress-drop counter
   and for every queue-drop counter; every later delta is taken against the
   baseline, which is the raw reading of the iteration before, because every
   iteration replaces the baseline by its own reading, also after a decrease;
   the single-queue readings 100, 130, 125 give the deltas 0, 30, 0. *)
C2_FirstZeroThenAgainstPrevious ==
    [][ RecordWritten =>
          /\ nrec' = nrec + 1
          /\ nrec = 0 =>
                /\ rec'.d_eg_drop = 0
                /\ \A k \in 1..Len(rec'.d_q_drops) : rec'.d_q_drops[k] = 0
          /\ nrec >= 1 =>
                /\ prev_eg_drop = Some(rec.eg_drop)
                /\ prev_q_drops = rec.q_drops
                /\ IsMaxZeroDiff(rec'.d_eg_drop, rec'.eg_drop, Val(prev_eg_drop))
                /\ \A k \in 1..Len(rec'.d_q_drops) :
                      IsMaxZeroDiff(rec'.d_q_drops[k], rec'.q_drops[k], prev_q_drops[k])
          /\ prev_eg_drop' = Some(rec'.eg_drop)
          /\ prev_q_drops' = rec'.q_drops
          /\ universe.name = "C" =>
                /\ rec'.q_drops = << ScenarioC[nrec'] >>
                /\ rec'.d_q_drops = << (<< 0, 30, 0 >>)[nrec'] >>
      ]_vars

C2_Witness ==
    /\ universe.name = "C"
    /\ ~args.all_queues
    /\ nrec = 2
    /\ rec.q_drops = << 130 >>
    /\ rec.d_q_drops = << 30 >>
    /\ prev_q_drops = << 130 >>

(* C3: in every all-queues record sum_d_q_drop is the sum of the 8 per-queue
   deltas of the record and d_unattributed is max(0, d_egress_drop -
   sum_d_q_drop): never negative, and 0 when the sum reaches d_egress_drop. *)
C3_Attribution ==
    rec.kind = "all" =>
        /\ Len(rec.d_q_drops) = 8
        /\ rec.sum_d_q = rec.d_q_drops[1] + rec.d_q_drops[2] + rec.d_q_drops[3]
                           + rec.d_q_drops[4] + rec.d_q_drops[5] + rec.d_q_drops[6]
                           + rec.d_q_drops[7] + rec.d_q_drops[8]
        /\ rec.d_unattributed >= 0
        /\ IF rec.sum_d_q >= rec.d_eg_drop
           THEN rec.d_unattributed = 0
           ELSE rec.d_unattributed = rec.d_eg_drop - rec.sum_d_q

C3_Witness ==
    /\ rec.kind = "all"
    /\ rec.d_eg_drop = 1
    /\ rec.sum_d_q = 2
    /\ rec.d_unattributed = 0

(***************************************************************************)
(* Properties of the pure helpers.                                         *)
(***************************************************************************)
(* C4: for a logical index i in 0..7 and a mapping list m, mapQueueKey(i, m)
   is m[i] when i < len(m), and i when m is empty or i >= len(m). *)
C4_MapQueueKey ==
    (call.fn = "map" /\ call.arg \in 0..7) =>
        IF call.arg < Len(call.list)
        THEN call.result = call.list[call.arg + 1]
        ELSE call.result = call.arg

C4_Witness ==
    /\ call.fn = "map"
    /\ call.arg = 0
    /\ call.list = << MaxKey, 1, 0 >>
    /\ call.result = MaxKey

(* u is floor(r / 1000) for r >= 0 and 0 for r < 0, said without division. *)
IsFloorUnits(u, r) ==
    IF r < 0 THEN u = 0 ELSE u * 1000 <= r /\ r < (u + 1) * 1000

(* C5: toHardwareUnits(r) is floor(r / 1000) for r >= 0 and 0 for r < 0, and
   of two calls the one with the larger r never gives the smaller result. *)
C5_RateToTmUnitsFloors ==
    [][ call'.fn = "rate" =>
          /\ IsFloorUnits(call'.result, call'.arg)
          /\ (call.fn = "rate" /\ call.arg <= call'.arg) => call.result <= call'.result
      ]_vars

C5_Witness ==
    /\ call.fn = "rate"
    /\ call.arg = 1999
    /\ call.result = 1

(***************************************************************************)
(* Properties of a run on one device port.                                 *)
(***************************************************************************)
(* tm.port.cfg was read and held no pg_id >= 0. *)
ResolvedNoPortGroup ==
    /\ Len(ops) >= 2
    /\ ops[2].op = "get"
    /\ ops[2].table = "tm.port.cfg"
    /\ ops[2].ok
    /\ pg_id < 0

(* C6: on one explicit target port (apply, reset of one target, watch; port or
   queue scope), when the port-group resolution gives pg_id < 0 the run ends
   with the resolution error, and no write was issued on any table: the read
   of tm.port.cfg is its last hardware call. *)
C6_UnresolvedAbortsWithoutWrite ==
    ResolvedNoPortGroup =>
        /\ pc = "crashed"
        /\ err = "resolve_failed"
        /\ Len(ops) = 2
        /\ \A k \in 1..Len(ops) : ~IsWrite(ops[k])
        /\ iterOps = << >>
        /\ hw \in {HwInit, HwShaped}

C6_Witness ==
    /\ ResolvedNoPortGroup
    /\ args.mode = "apply"
    /\ args.dev_port = Some(5)
    /\ pc = "crashed"
    /\ err = "resolve_failed"

(* C7: an apply that succeeds (here: with --max-bps) issued, after the pipe
   selection and the resolution and in this order, the read of the
   scheduler-config and shaping entries, exactly two writes, max_rate_enable =
   true on the scheduler-config table and then max_rate =
   floor(rate / 1000) on the shaping table, and the re-read of both entries;
   the re-read shows enabled and that rate.  2,000,000,000 bps on port 10 at
   port scope writes 2,000,000. *)
C7_ApplyOrder ==
    (pc = "done" /\ args.mode = "apply" /\ ~IsNone(args.max_bps)) =>
        LET key == IF args.scope = "port" THEN << Val(args.dev_port) >> ELSE ops[3].key
        IN  /\ Len(ops) = 8
            /\ ops[1] = SetPipeOp(Val(args.dev_port) \div 128, TRUE)
            /\ ops[2] = GetOp("tm.port.cfg", << Val(args.dev_port) >>, TRUE)
            /\ ops[3] = GetOp(CfgTable(args.scope), key, TRUE)
            /\ ops[4] = GetOp(ShapingTable(args.scope), key, TRUE)
            /\ ops[5] = ModEnableOp(CfgTable(args.scope), key, TRUE, TRUE)
            /\ ops[6] = ModRateOp(ShapingTable(args.scope), key, ops[6].val, TRUE)
            /\ IsFloorUnits(ops[6].val, Val(args.max_bps))
            /\ ops[7] = ops[3]
            /\ ops[8] = ops[4]
            /\ Cardinality({k \in 1..Len(ops) : IsWrite(ops[k])}) = 2
            /\ new_snap = [cfg |-> TRUE, rate |-> ops[6].val]
            /\ (args.scope = "port" /\ args.max_bps = Some(2000000000))
                  => ops[6].val = 2000000

C7_Witness ==
    /\ pc = "done"
    /\ args.mode = "apply"
    /\ args.scope = "port"
    /\ args.dev_port = Some(10)
    /\ args.max_bps = Some(2000000000)
    /\ new_snap = [cfg |-> TRUE, rate |-> 2000000]
    /\ hw.port_enable
    /\ hw.port_rate = 2000000

(***************************************************************************)
(* Properties of the global reset sweep.                                   *)
(***************************************************************************)
IsSweepRun == args.mode = "reset" /\ IsNone(args.dev_port)
SweepBanner == Line("reset_all_banner", 0, 0)

(* The port-level disable write of the latest port raised. *)
PortModFailed(log) ==
    /\ Len(log) >= 2
    /\ log[2].op = "mod"
    /\ log[2].table = "tm.port.sched_cfg"
    /\ ~log[2].ok

(* C8: the sweep never aborts on a failure: whatever set_pipe, the writes and
   the port-config reads do, the run never ends by an exception, the ports are
   taken one by one in ascending order, each port adds one to exactly one of
   reset_count and skipped_count, the two add up to the ports visited at every
   step and to 256 at the end. *)
C8_SweepNeverAborts ==
    [][ IsSweepRun =>
          /\ pc' \notin {"crashed", "exit"}
          /\ dp' \in {dp, dp + 1}
          /\ (pc = "sweep" /\ pc' = "swept") =>
                /\ iterOps'[1] = SetPipeOp(PipeOf(dp), iterOps'[1].ok)
                /\ \/ reset_count' = reset_count + 1 /\ skipped_count' = skipped_count
                   \/ reset_count' = reset_count /\ skipped_count' = skipped_count + 1
          /\ (pc = "swept" => dp' = dp + 1)
          /\ (pc' = "sweep" => reset_count' + skipped_count' = dp' /\ dp' <= NumPorts)
          /\ (pc' = "swept" => reset_count' + skipped_count' = dp' + 1 /\ dp' < NumPorts)
          /\ (pc' = "done" => dp' = NumPorts /\ reset_count' + skipped_count' = NumPorts)
      ]_vars

C8_Witness ==
    /\ pc = "done"
    /\ universe.name = "any"
    /\ reset_count = 100
    /\ skipped_count = 156

(* C9 as stated: resetAll(scope=port) where ports 0..127 resolve and ports
   128..255 fail their port-config reads ends with resetCount = 128 and
   skippedCount = 128. *)
C9_ScenarioD_Original ==
    (universe.name = "D" /\ args.scope = "port" /\ pc = "done")
        => (reset_count = 128 /\ skipped_count = 128)

(* C9 as amended: in that universe, every port-level write succeeding,
   resetAll(scope=port) ends with resetCount = 256 and skippedCount = 0 (a port
   whose port-config read fails after its write succeeded counts as reset);
   resetAll(scope=queue) ends with resetCount = 128 and skippedCount = 128. *)
C9_ScenarioD_Amended ==
    (universe.name = "D" /\ pc = "done")
        => IF args.scope = "port"
           THEN reset_count = 256 /\ skipped_count = 0
           ELSE reset_count = 128 /\ skipped_count = 128

C9_Witness ==
    /\ universe.name = "D"
    /\ args.scope = "port"
    /\ pc = "done"
    /\ reset_count = 256
    /\ skipped_count = 0

(* C10: in the sweep a port-level disable write that raises is not raised
   further and writes no line: the port is counted as skipped, it is the last
   hardware call for that port, and the whole output of the sweep is the banner
   followed by the one summary line with the two counts. *)
C10_FailedPortWriteSilentlySkipped ==
    [][ IsSweepRun =>
          /\ (pc = "sweep" /\ PortModFailed(iterOps')) =>
                /\ pc' = "swept"
                /\ err' = "none"
                /\ skipped_count' = skipped_count + 1
                /\ reset_count' = reset_count
                /\ Len(iterOps') = 2
                /\ out' = out
          /\ (pc' \in {"sweep", "swept"} => out' = << SweepBanner >>)
          /\ (pc' = "done" =>
                out' = << SweepBanner,
                          Line("reset_summary", reset_count', skipped_count') >>)
      ]_vars

C10_Witness ==
    /\ pc = "done"
    /\ args.scope = "port"
    /\ universe.name = "any"
    /\ skipped_count = NumPorts
    /\ iterOps = << >>
    /\ Len(out) = 2

(***************************************************************************)
(* Properties of the end of a run.                                         *)
(***************************************************************************)
(* main() has returned, or ended by SystemExit or by an uncaught exception. *)
RunEnded == pc \in {"done", "exit", "crashed"}

(* C11: on every exit path of a run (apply done, reset of one target done,
   sweep done, watch stopped by a bound, watch interrupted from outside, a
   fatal error) the output sink has been closed exactly once when the process
   exits, and it is never closed twice. *)
C11_ClosedExactlyOnceOnEveryExit ==
    /\ closeCount <= 1
    /\ RunEnded => closeCount = 1

(***************************************************************************)
(* Properties of the sampling loop.                                        *)
(***************************************************************************)
(* A hardware read of the latest watch iteration raised. *)
WatchReadRaised ==
    /\ args.mode = "watch"
    /\ iterOps # << >>
    /\ iterOps[Len(iterOps)].op = "get"
    /\ ~iterOps[Len(iterOps)].ok

(* C12: a hardware read that fails inside the sampling loop (the port
   counters, the port statistics or a queue counter) never ends the loop: the
   run is not ended by that failure, the loop stays in Sampling and goes on
   to its later iterations. *)
C12_ReadFailureKeepsSampling ==
    WatchReadRaised => ~(pc = "crashed" /\ err = "hardware_error")

DurationReached == ~IsNone(args.duration) /\ elapsed >= Val(args.duration)
IterationsReached == ~IsNone(args.iterations) /\ nrec >= Val(args.iterations)

IterationStarts == pc = "watch_check" /\ pc' = "watch_sample"
LoopStops == pc = "watch_check" /\ pc' = "watch_close"

(* C13: the sampling loop stops at the bound reached first.  No iteration
   starts once the elapsed time is >= the duration or N records were written;
   the loop stops only at a bound; when it stops with the duration not reached
   exactly N records were written (none for an N below zero); with neither
   bound given it never stops on its own.  A loop that has a bound leaves
   Sampling in the end: it stops, or
   the run is ended by an exception or an interrupt. *)
C13_StopsAtFirstBound ==
    /\ [][ args.mode = "watch" =>
             /\ IterationStarts => (~DurationReached /\ ~IterationsReached)
             /\ LoopStops => (DurationReached \/ IterationsReached)
             /\ (LoopStops /\ ~DurationReached) => nrec = Max2(0, Val(args.iterations))
             /\ (LoopStops /\ ~IsNone(args.iterations))
                    => nrec <= Max2(0, Val(args.iterations))
             /\ RecordWritten => nrec' = nrec + 1
             /\ ~RecordWritten => nrec' = nrec
             /\ (IsNone(args.duration) /\ IsNone(args.iterations))
                    => pc' \notin {"watch_close", "done"}
         ]_vars
    /\ (pc = "watch_check" /\ (~IsNone(args.duration) \/ ~IsNone(args.iterations)))
          ~> RunEnded

C13_Witness ==
    /\ pc = "done"
    /\ args.mode = "watch"
    /\ IsNone(args.duration)
    /\ args.iterations = Some(3)
    /\ nrec = 3
    /\ universe.name = "any"

(***************************************************************************)
(* Properties of the command line.                                         *)
(***************************************************************************)
NoRateOption == IsNone(args.max_bps) /\ IsNone(args.max_gbps) /\ IsNone(args.max_mbps)

MalformedCli ==
    \/ args.mode = "apply" /\ NoRateOption
    \/ args.mode \in {"apply", "watch"} /\ IsNone(args.dev_port)

(* C14: a malformed command line (apply without a rate option, apply or watch
   without --dev-port) is reported as a fatal error before any hardware
   access: such a run makes no pipe selection, no table read and no table
   write, and it ends by that error and in no other way. *)
C14_MalformedCliBeforeHardware ==
    MalformedCli =>
        /\ ops = << >>
        /\ iterOps = << >>
        /\ RunEnded => (pc = "exit" /\ err \in {"rate_required", "dev_port_required"})

(***************************************************************************)
(* Properties of the dispatch on the mode.                                 *)
(***************************************************************************)
SweepPcs == {"sweep", "swept"}
ApplyPcs == {"apply", "apply_read", "apply_enable", "apply_rate", "apply_reread"}
ResetPcs == {"reset_single", "reset_reread"}
WatchPcs == {"watch_setup", "watch_check", "watch_sample", "watch_sleep", "watch_close"}

Writes(log) == {k \in 1..Len(log) : IsWrite(log[k])}

NoSweepDone == dp = 0 /\ reset_count = 0 /\ skipped_count = 0
NoApplyDone == max_rate_units = 0 /\ cur_snap = NoSnap
NoWatchDone == nrec = 0 /\ rec = NoRec /\ i = 0 /\ IsNone(prev_eg_drop)

(* C15: a run executes the operations of exactly one mode.  reset without
   --dev-port runs the sweep and nothing else; reset with --dev-port runs the
   reset of that target only (one disable write); apply runs apply only (the
   enable and the rate write) and ends; the watch loop is entered only when
   the mode is neither apply nor reset and --dev-port is given, and it
   writes nothing. *)
C15_OneModePerRun ==
    /\ pc \in SweepPcs => (args.mode = "reset" /\ IsNone(args.dev_port))
    /\ pc \in ApplyPcs => (args.mode = "apply" /\ ~IsNone(args.dev_port))
    /\ pc \in ResetPcs => (args.mode = "reset" /\ ~IsNone(args.dev_port))
    /\ pc \in WatchPcs =>
          (args.mode \notin {"apply", "reset"} /\ ~IsNone(args.dev_port))
    /\ (args.mode = "reset" /\ IsNone(args.dev_port)) =>
          /\ ops = << >>
          /\ NoApplyDone /\ NoWatchDone /\ new_snap = NoSnap
          /\ pc = "done" => dp = NumPorts
    /\ (args.mode = "reset" /\ ~IsNone(args.dev_port)) =>
          /\ NoSweepDone /\ NoApplyDone /\ NoWatchDone /\ iterOps = << >>
          /\ \A k \in Writes(ops) : ops[k].field = "max_rate_enable" /\ ops[k].val = 0
          /\ Cardinality(Writes(ops)) <= 1
          /\ pc = "done" => Cardinality(Writes(ops)) = 1
    /\ args.mode = "apply" =>
          /\ NoSweepDone /\ NoWatchDone /\ iterOps = << >>
          /\ \A k \in Writes(ops) :
                 \/ ops[k].field = "max_rate_enable" /\ ops[k].val = 1
                 \/ ops[k].field = "max_rate"
          /\ pc = "done" => Cardinality(Writes(ops)) = 2
    /\ args.mode = "watch" =>
          /\ NoSweepDone /\ NoApplyDone /\ new_snap = NoSnap
          /\ Writes(ops) = {} /\ Writes(iterOps) = {}
          /\ hw = HwInit

C15_Witness ==
    /\ args.mode = "reset"
    /\ args.dev_port = Some(200)
    /\ args.scope = "queue"
    /\ pc = "done"
    /\ Cardinality(Writes(ops)) = 1
    /\ closeCount = 1

(***************************************************************************)
(* Properties of the writes.                                               *)
(***************************************************************************)
SchedCfgTables == {"tm.port.sched_cfg", "tm.queue.sched_cfg"}
ShapingTables == {"tm.port.sched_shaping", "tm.queue.sched_shaping"}

(* The write carries the shaping enable flag alone, on a scheduler-config
   table, or the shaping-rate parameters alone, on a shaping table. *)
ShapingWriteOnly(o) ==
    \/ o.table \in SchedCfgTables /\ o.fields = {"max_rate_enable"}
    \/ o.table \in ShapingTables /\ o.fields = {"unit", "provisioning", "max_rate"}

(* C16: no operation (apply, reset of one target, sweep; port or queue scope)
   writes a scheduler priority or algorithm field: every write on a
   scheduler-config table carries the shaping enable flag and nothing else,
   every other write is a write of the shaping-rate parameters on a shaping
   table, and only mod calls change a table. *)
C16_OnlyShapingFieldsWritten ==
    /\ \A k \in 1..Len(ops) :
          IF IsWrite(ops[k]) THEN ShapingWriteOnly(ops[k]) ELSE ops[k].fields = {}
    /\ \A k \in 1..Len(iterOps) :
          IF IsWrite(iterOps[k]) THEN ShapingWriteOnly(iterOps[k])
          ELSE iterOps[k].fields = {}

C16_Witness ==
    /\ IsSweepRun
    /\ args.scope = "queue"
    /\ pc = "swept"
    /\ Cardinality(Writes(iterOps)) = NumQueues
    /\ iterOps[3].table = "tm.queue.sched_cfg"

(***************************************************************************)
(* Properties of a command run twice.                                      *)
(***************************************************************************)
(* What the tables hold for the target whose key a write named. *)
EnabledAt(h, key) ==
    IF Len(key) = 1 THEN h.port_enable ELSE key[2] \in h.q_enabled
RateAt(h, key) ==
    IF Len(key) = 1 THEN h.port_rate
    ELSE IF \E e \in h.q_rates : e[1] = key[2]
         THEN (CHOOSE e \in h.q_rates : e[1] = key[2])[2]
         ELSE DefaultMaxRate

(* C17: reset and apply are idempotent on the shaping state.  With no other
   writer, the tables after the first run of a reset hold enabled = false for
   the target and after the first run of an apply enabled = true and the rate
   written; a second run of the same command on the same target changes
   nothing at any step, so it ends in the state the first run ended in. *)
C17_Idempotent ==
    /\ run = 2 => hw = hw_first
    /\ (pc = "done" /\ args.mode = "reset") => ~EnabledAt(hw, ops[3].key)
    /\ (pc = "done" /\ args.mode = "apply") =>
          /\ EnabledAt(hw, ops[5].key)
          /\ RateAt(hw, ops[6].key) = ops[6].val
          /\ ops[6].key = ops[5].key

C17_Witness ==
    /\ run = 2
    /\ pc = "done"
    /\ args.mode = "apply"
    /\ args.scope = "queue"
    /\ args.max_bps = Some(1999)
    /\ hw_first # HwInit
    /\ hw_first # HwShaped
    /\ hw = hw_first

(***************************************************************************)
(* Properties of the rate options.                                         *)
(***************************************************************************)
RateOptionsGiven ==
    (IF IsNone(args.max_bps) THEN 0 ELSE 1) + (IF IsNone(args.max_gbps) THEN 0 ELSE 1)
        + (IF IsNone(args.max_mbps) THEN 0 ELSE 1)

(* C18: --max-gbps, --max-mbps and --max-bps are mutually exclusive and one
   of them is required: an apply run with none of them fails fatally, and an
   apply run with more than one of them is rejected: it applies no rate (it
   issues no write) and does not end as a successful apply. *)
C18_RateOptionsExclusive ==
    (args.mode = "apply" /\ RateOptionsGiven # 1) =>
        /\ Writes(ops) = {}
        /\ pc # "done"
        /\ hw \in {HwInit, HwShaped}

(***************************************************************************)
(* Properties of the counter reader.                                       *)
(***************************************************************************)
(* C19: the counter reader returns the same map from field name to integer
   whether the keys of the entry arrive as bytes or as text: it does not
   raise, the map holds each field of the entry under its name with its
   value, and the loop reads every field absent from the entry as 0. *)
C19_KeysNormalizedAbsentZero ==
    call.fn = "counter" =>
        /\ ~call.result.raised
        /\ call.result.data = {<< f.name, f.val >> : f \in call.list}
        /\ \A n \in CounterFields :
              IF \E f \in call.list : f.name = n
              THEN \E f \in call.list : f.name = n /\ call.result.read[n] = f.val
              ELSE call.result.read[n] = 0

(***************************************************************************)
(* Properties of the queue keys.                                           *)
(***************************************************************************)
QueueTables == {"tm.queue.sched_cfg", "tm.queue.sched_shaping", "tm.counter.queue"}

(* The calls of a log on the queue tables, in order. *)
QueueCalls(log) == SelectSeq(log, LAMBDA o : o.table \in QueueTables)

(* C20: every queue-scoped hardware call addresses its queue by
   mapQueueKey(logical index, egress_qid_queues) with the mapping resolved for
   the device port of the call: the queue apply and the queue reset of one
   target and the single-queue watch by the mapped key of --queue, the
   all-queues watch and the sweep by the mapped keys of 0..7 in order; never
   by the raw index where the mapping has an entry for it. *)
C20_QueueCallsUseMappedKey ==
    /\ \A k \in 1..Len(ops) :
          ops[k].table \in QueueTables =>
              ops[k].key = << pg_id, MapQueueKey(args.queue, egress_qids) >>
    /\ (args.mode = "watch" /\ ~args.all_queues) =>
          \A k \in 1..Len(QueueCalls(iterOps)) :
              QueueCalls(iterOps)[k].key = << pg_id, MapQueueKey(args.queue, egress_qids) >>
    /\ (args.mode = "watch" /\ args.all_queues) =>
          \A k \in 1..Len(QueueCalls(iterOps)) :
              QueueCalls(iterOps)[k].key = << pg_id, MapQueueKey(k - 1, egress_qids) >>
    /\ IsSweepRun =>
          \E m \in QidMaps :
              \A k \in 1..Len(QueueCalls(iterOps)) :
                  QueueCalls(iterOps)[k].key[2] = MapQueueKey(k - 1, m)

(***************************************************************************)
(* Further properties of the global reset sweep.                           *)
(***************************************************************************)
PortSwept == pc = "sweep" /\ pc' = "swept"

(* C21: in the sweep at queue scope, for each port whose pipe was selected:
   when the read of tm.port.cfg raises or gives pg_id < 0 the port is counted
   as skipped and no queue write is issued for it; otherwise a disable write
   is attempted for each logical queue 0..7 in this order, keyed by the pg_id
   and the mapped key of the queue, whether or not an earlier queue write
   raised, and the port is counted as reset however many of them raised. *)
C21_SweepQueueScope ==
    [][ (IsSweepRun /\ args.scope = "queue" /\ PortSwept /\ iterOps'[1].ok) =>
          /\ Len(iterOps') >= 2
          /\ iterOps'[2] = GetOp("tm.port.cfg", << dp >>, iterOps'[2].ok)
          /\ IF ~iterOps'[2].ok \/ pg_id' < 0
             THEN /\ Len(iterOps') = 2
                  /\ skipped_count' = skipped_count + 1
                  /\ reset_count' = reset_count
             ELSE /\ Len(iterOps') = 2 + 8
                  /\ \A q \in 0..7 :
                        iterOps'[3 + q] =
                            ModEnableOp("tm.queue.sched_cfg",
                                        << pg_id', MapQueueKey(q, egress_qids') >>,
                                        FALSE, iterOps'[3 + q].ok)
                  /\ reset_count' = reset_count + 1
                  /\ skipped_count' = skipped_count
      ]_vars

C21_Witness ==
    /\ IsSweepRun
    /\ args.scope = "queue"
    /\ pc = "swept"
    /\ egress_qids = << MaxKey, MaxKey - 1 >>
    /\ Len(iterOps) = 10
    /\ ~iterOps[3].ok
    /\ iterOps[4].ok
    /\ ~iterOps[10].ok
    /\ reset_count = 2
    /\ skipped_count = 1

(* The calls of a log on the port-level scheduler-config table. *)
PortLevelCalls(log) == SelectSeq(log, LAMBDA o : o.table = "tm.port.sched_cfg")

(* C22 as stated: in the sweep a port-level disable write is attempted for
   every device port 0..255 whatever the scope; at queue scope it is made in
   addition to the queue-level writes. *)
C22_PortWriteAtEveryScope_Original ==
    (IsSweepRun /\ pc = "swept") =>
        \E ok \in BOOLEAN :
            PortLevelCalls(iterOps) = << ModEnableOp("tm.port.sched_cfg", << dp >>, FALSE, ok) >>

(* C22 as amended: at port scope one port-level disable write is attempted
   for every device port 0..255 whose pipe selection did not raise, right
   after the selection and whether or not the port is known to be valid (no
   read precedes it); at queue scope no port-level write is attempted, the
   queue-level writes are the only writes of the port. *)
C22_PortWriteAtPortScope ==
    (IsSweepRun /\ pc = "swept") =>
        IF args.scope = "port" /\ iterOps[1].ok
        THEN /\ Len(iterOps) >= 2
             /\ iterOps[2] = ModEnableOp("tm.port.sched_cfg", << dp >>, FALSE, iterOps[2].ok)
             /\ Len(PortLevelCalls(iterOps)) = 1
        ELSE /\ PortLevelCalls(iterOps) = << >>
             /\ \A k \in Writes(iterOps) : iterOps[k].table = "tm.queue.sched_cfg"

C22_Witness ==
    /\ IsSweepRun
    /\ args.scope = "queue"
    /\ pc = "swept"
    /\ dp = 200
    /\ Cardinality(Writes(iterOps)) = NumQueues
    /\ PortLevelCalls(iterOps) = << >>

(* The entry a reset of one target addresses: the port by its device port,
   a queue by its port group and the hardware key of the logical queue. *)
ResetTargetKey ==
    IF args.scope = "port" THEN << Val(args.dev_port) >>
    ELSE << pg_id, MapQueueKey(args.queue, egress_qids) >>

(* C23: the reset of one target makes exactly one write, max_rate_enable =
   False on the scheduler-config entry of the requested scope (the port's
   key, or the port group and the mapped queue key); it makes no call on a
   shaping-rate table, so the configured rate stays as it was; and its last
   call re-reads that same entry from hardware, right after the write. *)
C23_SingleResetOneWrite ==
    (args.mode = "reset" /\ ~IsNone(args.dev_port)) =>
        /\ \A k \in 1..Len(ops) : ops[k].table \notin ShapingTables
        /\ \A k \in Writes(ops) :
               /\ k = 3
               /\ ops[k] = ModEnableOp(CfgTable(args.scope), ResetTargetKey, FALSE, ops[k].ok)
        /\ HwRate(hw, args.scope, ResetTargetKey) = HwRate(hw_first, args.scope, ResetTargetKey)
        /\ pc \in {"reset_reread", "done"} =>
               /\ Writes(ops) = {3}
               /\ ops[3].ok
               /\ ~HwEnable(hw, args.scope, ResetTargetKey)
        /\ pc = "done" =>
               /\ Len(ops) = 4
               /\ ops[4] = GetOp(CfgTable(args.scope), ResetTargetKey, TRUE)

C23_Witness ==
    /\ args.mode = "reset"
    /\ args.scope = "queue"
    /\ pc = "done"
    /\ ResetTargetKey[2] # args.queue
    /\ HwEnable(hw_first, args.scope, ResetTargetKey)
    /\ ~HwEnable(hw, args.scope, ResetTargetKey)
    /\ HwRate(hw, args.scope, ResetTargetKey) = 5000

(* The pipe of a device port: ports 0..127 are in pipe 0, 128..255 in pipe 1. *)
ExpectedPipe(p) == IF p < 128 THEN 0 ELSE 1

(* The calls of a log that reach a table: every call but set_pipe. *)
TableCalls(log) == {k \in 1..Len(log) : log[k].op # "set_pipe"}

(* C24: every hardware access for device port p is made with pipe p div 128
   selected.  In the sweep the first call of each port selects the port's
   pipe (0 for ports 0..127, 1 for ports 128..255) and a table is reached
   only after that selection returned; a run on one device port selects the
   port's pipe as its first call, before the mapping is resolved, selects no
   other pipe later, and reaches a table only under that pipe. *)
C24_AccessUnderPortsPipe ==
    /\ (IsSweepRun /\ pc = "swept") =>
           /\ iterOps[1] = SetPipeOp(ExpectedPipe(dp), iterOps[1].ok)
           /\ TableCalls(iterOps) = 2..Len(iterOps)
           /\ TableCalls(iterOps) # {} => (iterOps[1].ok /\ pipe = ExpectedPipe(dp))
           /\ \A k \in TableCalls(iterOps) :
                  iterOps[k].table \in {"tm.port.sched_cfg", "tm.port.cfg"}
                      => iterOps[k].key = << dp >>
    /\ (~IsSweepRun /\ ~IsNone(args.dev_port) /\ (ops # << >> \/ iterOps # << >>)) =>
           /\ ops[1] = SetPipeOp(ExpectedPipe(Val(args.dev_port)), ops[1].ok)
           /\ TableCalls(ops) = 2..Len(ops)
           /\ (TableCalls(ops) # {} \/ TableCalls(iterOps) # {}) =>
                  (ops[1].ok /\ pipe = ExpectedPipe(Val(args.dev_port)))
           /\ Len(ops) >= 2 => ops[2] = GetOp("tm.port.cfg", << Val(args.dev_port) >>, ops[2].ok)
           /\ TableCalls(iterOps) = 1..Len(iterOps)

C24_Witness ==
    /\ IsSweepRun
    /\ pc = "swept"
    /\ dp = 128
    /\ pipe = 1
    /\ Writes(iterOps) # {}

IsWatchRun == args.mode = "watch" /\ ~IsNone(args.dev_port)

(* The reads of a whole iteration, in order: the port's counters, then the
   counters of the queue, or of the eight queues. *)
ReadsInOrder(log) ==
    /\ Len(log) = 2 + (IF args.all_queues THEN 8 ELSE 1)
    /\ \A k \in 1..Len(log) : log[k].op = "get" /\ log[k].ok
    /\ log[1].table = "tm.counter.eg_port"
    /\ log[2].table = "port.port_stat"
    /\ \A k \in 3..Len(log) : log[k].table = "tm.counter.queue"

(* C25: the iterations of watch do not overlap and are ordered.  An iteration
   reads the port counters, then the queue counters, then writes exactly one
   record, then sleeps; the next iteration reads nothing before that record
   is written and that sleep is over; and the number of records written is
   at every moment the number of iterations counted as completed. *)
C25_IterationsOrdered ==
    /\ [](IsWatchRun => nrec = i)
    /\ [](IsWatchRun /\ pc = "watch_sleep" => ReadsInOrder(iterOps))
    /\ [][IsWatchRun =>
            /\ nrec' # nrec =>
                   /\ pc = "watch_sample"
                   /\ nrec' = nrec + 1
                   /\ ReadsInOrder(iterOps')
                   /\ pc' = "watch_sleep"
            /\ iterOps' # iterOps => pc = "watch_sample"
            /\ pc' = "watch_sample" =>
                   /\ pc = "watch_check"
                   /\ nrec = 0 \/ elapsed >= nrec * args.interval
            /\ (pc = "watch_sleep" /\ pc' = "watch_check") =>
                   /\ elapsed' >= elapsed + args.interval
                   /\ nrec' = nrec /\ iterOps' = iterOps
            /\ (pc = "watch_sleep" /\ pc' # pc) => pc' \in {"watch_check", "crashed"}
          ]_vars

C25_Witness ==
    /\ IsWatchRun
    /\ args.all_queues
    /\ pc = "watch_sample"
    /\ nrec = 2
    /\ elapsed = 2
    /\ ReadsInOrder(iterOps)

(* C26: the sampling loop never sleeps a negative duration.  Whatever the
   --interval (zero or less included), the duration an iteration hands to
   its sleep step is >= 0. *)
C26_SleepNeverNegative ==
    (IsWatchRun /\ pc = "watch_sleep") => SleepDuration >= 0

(* The calls of a log that change hardware state: table writes and the
   counter clear. *)
StateChanging(log) == {k \in 1..Len(log) : log[k].op \in {"mod", "clear"}}
Clears(log) == {k \in 1..Len(log) : log[k].op = "clear"}

(* C27: watch does not touch the shaping configuration.  From its start to
   the end of the loop no write goes to a scheduler-config or shaping table
   of a port or a queue and the tables stay as they were; the one
   state-changing call is the counter clear, made only when asked for, at
   most once, and before the first sample. *)
C27_WatchReadOnly ==
    /\ [](IsWatchRun =>
            /\ Writes(ops) = {} /\ Writes(iterOps) = {}
            /\ \A k \in 1..Len(ops) :
                   ops[k].table \notin SchedCfgTables \cup ShapingTables
            /\ \A k \in 1..Len(iterOps) :
                   iterOps[k].table \notin SchedCfgTables \cup ShapingTables
            /\ hw = hw_first
            /\ StateChanging(iterOps) = {}
            /\ StateChanging(ops) = Clears(ops)
            /\ Cardinality(Clears(ops)) <= 1
            /\ Clears(ops) # {} => args.clear_counters)
    /\ [][(IsWatchRun /\ Clears(ops') # Clears(ops)) =>
              (nrec = 0 /\ iterOps = << >> /\ pc = "watch_setup")]_vars

C27_Witness ==
    /\ IsWatchRun
    /\ args.clear_counters
    /\ Clears(ops) = {3}
    /\ ops[3].ok
    /\ nrec = 2
    /\ pc = "watch_sleep"

(* The apply run whose rate write raised: the calls that wrote, or tried to
   write, a rate. *)
RateWrites(log) ==
    {k \in 1..Len(log) : log[k].op = "mod" /\ log[k].table \in ShapingTables}
RateWriteRaised == \E k \in RateWrites(ops) : ~ops[k].ok

(* The entry apply addresses: the port by its device port, a queue by its
   port group and --queue. *)
AppliedKey ==
    IF args.scope = "port" THEN << Val(args.dev_port) >> ELSE << pg_id, args.queue >>

(* C28: apply does not roll back.  When the enable write returned and the
   rate write raised, the run has ended with that error; the hardware holds
   max_rate_enable = True with the rate it had before; the failed rate write
   is the last hardware call of the run, so no write compensates and no
   snapshot is read after it; and no new_sched line is printed. *)
C28_ApplyNoRollback ==
    (args.mode = "apply" /\ run = 1 /\ RateWriteRaised) =>
        /\ pc = "crashed" /\ err = "hardware_error"
        /\ RateWrites(ops) = {Len(ops)}
        /\ Writes(ops) = {Len(ops) - 1, Len(ops)}
        /\ ops[Len(ops) - 1] = ModEnableOp(CfgTable(args.scope), AppliedKey, TRUE, TRUE)
        /\ HwEnable(hw, args.scope, AppliedKey)
        /\ HwRate(hw, args.scope, AppliedKey) = HwRate(hw_first, args.scope, AppliedKey)
        /\ new_snap = NoSnap
        /\ \A k \in 1..Len(out) :
               out[k].line \notin {"new_sched_cfg", "new_sched_shaping"}

C28_Witness ==
    /\ args.mode = "apply"
    /\ run = 1
    /\ RateWriteRaised
    /\ ~HwEnable(hw_first, args.scope, AppliedKey)
    /\ HwEnable(hw, args.scope, AppliedKey)
    /\ HwRate(hw, args.scope, AppliedKey) = DefaultMaxRate
    /\ max_rate_units # DefaultMaxRate

(* The reads of the port-group mapping in a log, and the calls on a table
   that is keyed by port group and queue. *)
MappingReads(log) == {k \in 1..Len(log) : log[k].table = "tm.port.cfg"}
PgKeyedCalls(log) ==
    {k \in 1..Len(log) :
         log[k].table \in {"tm.queue.sched_cfg", "tm.queue.sched_shaping", "tm.counter.queue"}}
UsesMapping(o) ==
    /\ o.key[1] = pg_id
    /\ args.mode # "apply" =>
           \E q \in (IF args.mode = "watch" /\ args.all_queues
                      THEN 0..7 ELSE {args.queue}) :
               o.key[2] = MapQueueKey(q, egress_qids)

(* C29: a run on one device port resolves the port-group mapping exactly
   once, before any other table access, and every later operation that
   takes a port group or a mapped queue key takes it from that one read:
   the mapping is never read again and pg_id and egress_qids never change
   afterwards, so every watch iteration works with the mapping read at the
   start, whatever the hardware's mapping has become since. *)
C29_MappingResolvedOnce ==
    /\ []((~IsSweepRun /\ ~IsNone(args.dev_port)) =>
            /\ MappingReads(ops) \subseteq {2}
            /\ MappingReads(iterOps) = {}
            /\ TableCalls(ops) # {} => 2 \in MappingReads(ops)
            /\ (TableCalls(ops) \ {2} # {} \/ iterOps # << >>) => ops[2].ok
            /\ \A k \in PgKeyedCalls(ops) : UsesMapping(ops[k])
            /\ \A k \in PgKeyedCalls(iterOps) : UsesMapping(iterOps[k]))
    /\ [][(~IsSweepRun /\ pc # "resolve") =>
              (pg_id' = pg_id /\ egress_qids' = egress_qids)]_vars

C29_Witness ==
    /\ IsWatchRun
    /\ args.all_queues
    /\ nrec = 2
    /\ egress_qids # << >>
    /\ hw_map.qids # egress_qids
    /\ MappingReads(ops) = {2}
    /\ Cardinality(PgKeyedCalls(iterOps)) = 8
    /\ iterOps[3].key[2] # 0
    /\ iterOps[3].key[2] # MapQueueKey(0, hw_map.qids)

HeaderWritten ==
    \E k \in 1..Len(out) : out[k].line \in {"header_single_queue", "header_all_queues"}
BoundAtMostZero ==
    \/ ~IsNone(args.iterations) /\ Val(args.iterations) <= 0
    \/ ~IsNone(args.duration) /\ Val(args.duration) <= 0

(* C30: the bounds of the sampling loop are looked at only when an iteration
   is about to start, before any read.  Counters are read only by an
   iteration that passed the check; an iteration that has started, unless the
   user interrupts it, completes its reads and writes its record; with
   --iterations or --duration at or below zero the header is written, no
   counter is read and no record is written; and the loop stops only at the
   check that follows a completed sleep (or the header): after the last
   record it sleeps the whole interval before it sees the bound and closes
   the writer. *)
C30_BoundsCheckedAtIterationStart ==
    /\ [](IsWatchRun /\ BoundAtMostZero =>
            /\ nrec = 0 /\ iterOps = << >>
            /\ pc \in {"watch_check", "watch_close", "done"} => HeaderWritten
            /\ pc # "watch_sample")
    /\ [][IsWatchRun =>
            /\ iterOps' # iterOps => (pc = "watch_sample" /\ ~WatchStop)
            /\ pc' = "watch_sample" => (pc = "watch_check" /\ ~WatchStop)
            /\ (pc = "watch_sample" /\ pc' # pc /\ err' # "interrupted") =>
                   (nrec' = nrec + 1 /\ ReadsInOrder(iterOps'))
            /\ pc' = "watch_close" => (pc = "watch_check" /\ WatchStop)
            /\ pc' = "watch_check" => pc \in {"watch_setup", "watch_sleep"}
            /\ (pc = "watch_sleep" /\ pc' = "watch_check") =>
                   elapsed' >= elapsed + args.interval
            /\ closeCount' # closeCount => pc = "watch_close"
          ]_vars

====
